---------------------------- MODULE Spec2Model ----------------------------
(***************************************************************************)
(* DevAgent: the agent orchestration graph (graphs/workflow.py and the     *)
(* five agent nodes), the chat session around it (app.py), the vector      *)
(* index create-or-get path (tools/llamaindex_manager.py) and the Python   *)
(* snippet extraction (tools/github_tool.py).                              *)
(*                                                                         *)
(* Every agent call (an LLM with tools) is an input: its structured        *)
(* response, or the fact that it raised, is drawn from a small set.        *)
(***************************************************************************)
EXTENDS Integers, Sequences, FiniteSets, TLC

(* ------------------------------ bounds --------------------------------- *)
\* node executions explored in one workflow run
MaxSteps == 11
\* user messages (workflow runs) explored in one session
MaxRuns == 2
\* characters of a JavaScript source text
MaxLen == 5
\* messages of a session after which no further prompt is explored
MaxMessages == 12

(* ------------------------- program constants --------------------------- *)
\* app.py build_initial_state: "max_iterations": 3
max_iterations_init == 3

None == "None"
END == "__end__"

Libs == {"pandas"}
Versions == {"1.0"}
IndexNames == {"pandas_python_1_0"}
Summaries == {"summary"}
Drafts == {"draft1", "draft2"}
Feedbacks == {"APPROVED", "fix it"}
Replies == {"reply"}
RephraseMsg == "I'm having trouble understanding. Could you rephrase your request"

VARIABLES
    st,           \* AgentState: the shared state of the running workflow
    active,       \* nodes scheduled to execute next (empty: the run is at __end__)
    final_result, \* run_workflow_streaming: node_output of the last streamed event
    trace,        \* the nodes executed in this run, in order (completed_steps + current_step)
    outcomes,     \* how the agent call of each executed node ended, in the order of trace
    last,         \* what the last executed node did: outcome of its agent call, errors before it
    fm_written,   \* some node of this run wrote final_markdown
    phase,        \* session: "idle" (waiting for input), "running" (astream loop), "ended"
    last_result,  \* st.session_state.last_result
    runs,         \* number of workflow runs started in this session
    prev_end      \* the previous run of the session: its state at its end, and its shape

wfVars == <<st, active, final_result, trace, outcomes, last, fm_written, phase, last_result, runs,
            prev_end>>

(* ------------------------- dict / state helpers ------------------------ *)
\* dict.get(key, default)
Get(d, k, default) == IF k \in DOMAIN d THEN d[k] ELSE default

EmptyDict == [k \in {} |-> None]

\* LangGraph channel update: errors is Annotated[List[str], operator.add]
\* (appended), every other key of the update overwrites the state's value
ApplyUpdate(s, u) ==
    [k \in DOMAIN s |->
        IF k \notin DOMAIN u THEN s[k]
        ELSE IF k = "errors" THEN s[k] \o u[k]
        ELSE u[k]]

\* Python truthiness of an Optional[str]
Truthy(v) == v # None /\ v # ""


PyTrue == "True"
PyFalse == "False"

(* --------------------------- app.py: session --------------------------- *)
\* The AgentState fields that decide routing or that a property below reads.
\* Fields that are only copied into prompts (user_query, package_manager,
\* release_date, repository_url, docs_url, github_repos, code_snippets, ...)
\* are left out.
build_initial_state(prev) ==
    [ lib_name          |-> Get(prev, "lib_name", ""),
      target_version    |-> Get(prev, "target_version", None),
      version_status    |-> "pending",
      doc_index_id      |-> Get(prev, "doc_index_id", None),
      research_summary  |-> Get(prev, "research_summary", None),
      tutorial_draft    |-> None,
      critique_feedback |-> None,
      validation_passed |-> None,
      issues_found      |-> <<>>,
      next_action       |-> None,
      current_agent     |-> "chat_agent",
      iteration_count   |-> 0,
      max_iterations    |-> max_iterations_init,
      errors            |-> <<>>,
      final_markdown    |-> Get(prev, "final_markdown", None),
      qa_response       |-> None,
      user_intent       |-> None,
      session_mode      |-> Get(prev, "session_mode", None) ]

\* main UI, "Persist key results for follow-up memory": result is what
\* run_workflow_streaming returned, i.e. final_result
persist_last_result(result) ==
    [ lib_name         |-> Get(result, "lib_name", ""),
      target_version   |-> Get(result, "target_version", None),
      doc_index_id     |-> Get(result, "doc_index_id", None),
      research_summary |-> Get(result, "research_summary", None),
      final_markdown   |-> Get(result, "final_markdown", None),
      session_mode     |-> Get(result, "session_mode", None) ]

\* the results a follow-up message is meant to find again
KeyFields == {"lib_name", "target_version", "doc_index_id", "research_summary",
              "final_markdown"}

KeyResults(state) == [k \in KeyFields |-> state[k]]

(* ----------------------- agent calls (inputs) -------------------------- *)
Raised == [raises |-> TRUE]

ChatResponses ==
    {Raised} \cup
    { [raises |-> FALSE, action |-> a, lib_name |-> l,
       response_message |-> r, additional_code |-> c] :
        a \in {"generate_tutorial", "answer_question", "clarify"},
        l \in Libs \cup {None}, r \in Replies, c \in {None, "code"} }

VersionResponses ==
    {Raised} \cup
    { [raises |-> FALSE, target_version |-> v, version_status |-> s] :
        v \in Versions, s \in {"pending", "confirmed", "failed"} }

\* the research agent's structured response followed by build_and_index;
\* either may raise inside the same try block
ResearchResponses ==
    {Raised} \cup
    { [raises |-> FALSE, index_name |-> i, research_summary |-> r] :
        i \in IndexNames, r \in Summaries }

WriterResponses ==
    {Raised} \cup { [raises |-> FALSE, tutorial_draft |-> d] : d \in Drafts }

CritiqueResponses ==
    {Raised} \cup
    { [raises |-> FALSE, validation_passed |-> v, issues_found |-> i,
       critique_feedback |-> f, final_markdown |-> m, next_action |-> a] :
        v \in {PyTrue, PyFalse}, i \in {<<>>, <<"issue">>}, f \in Feedbacks,
        m \in Drafts, a \in {"approve", "revise"} }

(* --------------------------- the five nodes ---------------------------- *)
\* Each node maps the state it is given and the outcome of its agent call
\* to a Command [goto, update].

\* full_response = response_message, plus a fenced block of additional_code
FullResponse(response_message, additional_code) ==
    IF Truthy(additional_code) THEN "reply with code block" ELSE response_message

chat_agent_node(state, llm) ==
    IF llm.raises THEN
        [ goto |-> END,
          update |-> [ qa_response |-> RephraseMsg,
                       errors |-> <<"Chat agent failed">>,
                       current_agent |-> "chat_agent" ] ]
    ELSE IF llm.action = "generate_tutorial" THEN
        [ goto |-> "version_agent",
          update |-> [ lib_name |-> llm.lib_name,
                       user_intent |-> "generate_tutorial",
                       session_mode |-> "generating",
                       qa_response |-> llm.response_message,
                       current_agent |-> "chat_agent" ] ]
    ELSE IF llm.action = "answer_question" THEN
        [ goto |-> END,
          update |-> [ qa_response |-> FullResponse(llm.response_message,
                                                    llm.additional_code),
                       user_intent |-> "ask_question",
                       session_mode |-> "interactive",
                       current_agent |-> "chat_agent" ] ]
    ELSE
        [ goto |-> END,
          update |-> [ qa_response |-> llm.response_message,
                       user_intent |-> "unclear",
                       session_mode |-> "interactive",
                       current_agent |-> "chat_agent" ] ]

version_agent_node(state, llm) ==
    IF llm.raises THEN
        [ goto |-> END,
          update |-> [ errors |-> <<"Version agent failed">>,
                       version_status |-> "failed",
                       current_agent |-> "version_agent" ] ]
    ELSE
        [ goto |-> IF llm.version_status = "confirmed" THEN "research_agent" ELSE END,
          update |-> [ target_version |-> llm.target_version,
                       version_status |-> llm.version_status,
                       lib_name |-> state.lib_name,
                       current_agent |-> "version_agent" ] ]

research_agent_node(state, llm) ==
    IF llm.raises THEN
        [ goto |-> END,
          update |-> [ errors |-> <<"Research agent failed">>,
                       current_agent |-> "research_agent" ] ]
    ELSE
        [ goto |-> "writer_agent",
          update |-> [ doc_index_id |-> llm.index_name,
                       research_summary |-> llm.research_summary,
                       current_agent |-> "research_agent" ] ]

writer_agent_node(state, llm) ==
    IF llm.raises THEN
        [ goto |-> "critique_agent",
          update |-> [ errors |-> <<"Writer agent failed">>,
                       current_agent |-> "writer_agent" ] ]
    ELSE
        [ goto |-> "critique_agent",
          update |-> [ tutorial_draft |-> llm.tutorial_draft,
                       current_agent |-> "writer_agent",
                       iteration_count |-> state.iteration_count + 1 ] ]

\* a cap test that lets one more iteration through
IterationCapReached_late(state) == state.iteration_count > state.max_iterations

\* a cap test that never ends the run
IterationCapReached_off(state) == FALSE

\* current_iteration >= max_iterations: the reviewer is not called
IterationCapReached(state) == state.iteration_count >= state.max_iterations

\* a revision request that goes back to research instead of the writer
CritiqueGoto_research(next_action) ==
    IF next_action = "approve" THEN END ELSE "research_agent"

\* the approve test inverted
CritiqueGoto_inverted(next_action) ==
    IF next_action = "approve" THEN "writer_agent" ELSE END

\* if updates.next_action == "approve": goto __end__, else: goto writer_agent
CritiqueGoto(next_action) ==
    IF next_action = "approve" THEN END ELSE "writer_agent"

critique_agent_node(state, llm) ==
    IF IterationCapReached(state) THEN
        [ goto |-> END,
          update |-> [ final_markdown |-> state.tutorial_draft,
                       validation_passed |-> PyFalse,
                       errors |-> <<"Max iteration reached. Tutorial may have issues.">>,
                       current_agent |-> "critique_agent" ] ]
    ELSE IF llm.raises THEN
        [ goto |-> END,
          update |-> [ final_markdown |-> state.tutorial_draft,
                       validation_passed |-> PyFalse,
                       errors |-> <<"critique agent failed">>,
                       current_agent |-> "critique_agent" ] ]
    ELSE
        [ goto |-> CritiqueGoto(llm.next_action),
          update |-> [ validation_passed |-> llm.validation_passed,
                       issues_found |-> llm.issues_found,
                       critique_feedback |-> llm.critique_feedback,
                       final_markdown |-> llm.final_markdown,
                       next_action |-> llm.next_action,
                       current_agent |-> "critique_agent" ] ]


(* ------------------------- graphs/workflow.py -------------------------- *)
\* The graph has one static edge, START -> chat_agent; every other
\* transition is the goto of the Command a node returns.
StartNodes == {"chat_agent"}

\* a static edge left in the graph next to the Command routing
StaticEdges_extra(n) == IF n = "research_agent" THEN {"critique_agent"} ELSE {}

StaticEdges(n) == {}

Route(n, cmd) == ({cmd.goto} \cup StaticEdges(n)) \ {END}

\* how the agent call of the node that ran ended
Outcome(n, state, llm) ==
    IF n = "critique_agent" /\ IterationCapReached(state) THEN "cap"
    ELSE IF llm.raises THEN "raise" ELSE "ok"

\* One streamed event of app.astream(..., stream_mode="updates"): node n
\* runs on the shared state, its update is applied, its goto is scheduled,
\* and run_workflow_streaming keeps the update as final_result.
Step(n, llm, cmd) ==
    /\ phase = "running"
    /\ n \in active
    /\ Len(trace) < MaxSteps
    /\ st' = ApplyUpdate(st, cmd.update)
    /\ active' = (active \ {n}) \cup Route(n, cmd)
    /\ final_result' = cmd.update
    /\ trace' = Append(trace, n)
    /\ outcomes' = Append(outcomes, Outcome(n, st, llm))
    /\ last' = [ node |-> n, outcome |-> Outcome(n, st, llm),
                 errs_before |-> Len(st.errors),
                 decision |-> IF n = "critique_agent" /\ Outcome(n, st, llm) = "ok"
                              THEN llm.next_action ELSE last.decision ]
    /\ fm_written' = (fm_written \/ "final_markdown" \in DOMAIN cmd.update)
    /\ UNCHANGED <<phase, last_result, runs, prev_end>>

ChatAgent ==
    \E llm \in ChatResponses : Step("chat_agent", llm, chat_agent_node(st, llm))

VersionAgent ==
    \E llm \in VersionResponses : Step("version_agent", llm, version_agent_node(st, llm))

ResearchAgent ==
    \E llm \in ResearchResponses : Step("research_agent", llm, research_agent_node(st, llm))

WriterAgent ==
    \E llm \in WriterResponses : Step("writer_agent", llm, writer_agent_node(st, llm))

CritiqueAgent ==
    \E llm \in CritiqueResponses : Step("critique_agent", llm, critique_agent_node(st, llm))

NoLast == [node |-> None, outcome |-> None, errs_before |-> 0, decision |-> None]
NoRun == [full |-> FALSE, st |-> KeyResults(build_initial_state(EmptyDict))]

\* the run passed through version_agent, research_agent and writer_agent
\* and its last node was critique_agent
FullRun(t) ==
    /\ t # <<>>
    /\ t[Len(t)] = "critique_agent"
    /\ \A n \in {"version_agent", "research_agent", "writer_agent"} :
          \E i \in 1..Len(t) : t[i] = n

\* A user message arrives (chat_input, st.rerun, processing): the workflow
\* is built and run_workflow_streaming starts it on build_initial_state.
SubmitMessage ==
    /\ phase = "idle"
    /\ runs < MaxRuns
    /\ st' = build_initial_state(last_result)
    /\ active' = StartNodes
    /\ final_result' = EmptyDict
    /\ trace' = <<>>
    /\ outcomes' = <<>>
    /\ last' = NoLast
    /\ fm_written' = FALSE
    /\ phase' = "running"
    /\ runs' = runs + 1
    /\ UNCHANGED <<last_result, prev_end>>

\* The stream is exhausted (the run reached __end__): the main UI persists
\* last_result from the returned result and waits for the next message.
FinishRun ==
    /\ phase = "running"
    /\ active = {}
    /\ last_result' = persist_last_result(final_result)
    /\ prev_end' = [full |-> FullRun(trace), st |-> KeyResults(st)]
    /\ phase' = "idle"
    /\ UNCHANGED <<st, active, final_result, trace, outcomes, last, fm_written, runs>>

WfInit ==
    /\ st = build_initial_state(EmptyDict)
    /\ active = {}
    /\ final_result = EmptyDict
    /\ trace = <<>>
    /\ outcomes = <<>>
    /\ last = NoLast
    /\ fm_written = FALSE
    /\ phase = "idle"
    /\ last_result = EmptyDict
    /\ runs = 0
    /\ prev_end = NoRun



(* ======================================================================= *)
(*            tools/llamaindex_manager.py: create-or-get of an index       *)
(* ======================================================================= *)
\* nodes handed to one create_index call
MaxNodes == 11
\* URLs handed to one build_and_index call (the changelog URL included)
MaxUrls == 2
\* calls of create_index / build_and_index explored on one store
MaxCalls == 2

\* create_index: batch_size = 5
batch_size == 5

\* Strings that get_index_name rewrites are sequences of characters.
LibraryNames == { <<"a">> }
Languages == { <<"p", "y">> }
VersionStrings == { <<"1", ".", "0">>, <<"2">> }
Triples == LibraryNames \X VersionStrings \X Languages

\* how many nodes the splitters make of a call's documents: none, one full
\* batch, several batches with a short last one
NodeCounts == {0, batch_size, MaxNodes}
UrlCounts == {0, MaxUrls}

\* embedding dimensions an embedding model may have
Dims == {1, 2}

\* str.replace('.', '_')
ReplaceDots(str) == [i \in 1..Len(str) |-> IF str[i] = "." THEN "_" ELSE str[i]]

\* f"{library_name}_{language}_{version}".replace('.', '_')
get_index_name(library_name, version, language) ==
    ReplaceDots(library_name \o <<"_">> \o language \o <<"_">> \o version)

AllIndexNames == { get_index_name(t[1], t[2], t[3]) : t \in Triples }

\* a collection that does not exist yet is created empty by
\* get_or_create_collection, so "absent" and "empty" are one state
EmptyCollection == [nodes |-> {}, dim |-> 0]

VARIABLES
    store,       \* persist_dir: index name -> the collection's nodes and their embedding dimension
    embed_dim,   \* the dimension of the embedding model of this process
    idx_pc,      \* "idle", "create" (build_and_index about to call create_index), "insert", "retry", "done"
    idx_call,    \* the call in progress: entry point, triple, number of URLs, number of nodes
    idx_i,       \* create_index: start of the current batch (the loop variable i)
    idx_log,     \* every insert_nodes attempt of the call: batch start, batch, outcome
    idx_scraped, \* URLs build_and_index handed to the reader in this call
    idx_ret,     \* the index name the call returned
    idx_pre,     \* the store and the outcome of the first index_exists check of the call
    idx_calls,   \* calls made so far
    idx_got      \* create_index of this call: "existing" (returned at its create-or-get test) or "created"

idxVars == <<store, embed_dim, idx_pc, idx_call, idx_i, idx_log, idx_scraped, idx_ret, idx_pre,
             idx_calls, idx_got>>

\* What the environment does to one index_exists check: opening the store
\* may raise, and so may the dimension check (peek / get_text_embedding).
ExistEnvs == [open_raises : BOOLEAN, dim_check_raises : BOOLEAN]

\* the dimension check raising is taken for a missing index
index_exists_strict(s, name, dim, env) ==
    IF env.open_raises THEN [result |-> FALSE, store |-> s]
    ELSE IF s[name].nodes = {} THEN [result |-> FALSE, store |-> s]
    ELSE IF env.dim_check_raises THEN [result |-> FALSE, store |-> s]
    ELSE IF s[name].dim # dim
         THEN [result |-> FALSE, store |-> [s EXCEPT ![name] = EmptyCollection]]
    ELSE [result |-> TRUE, store |-> s]

\* index_exists: False when the store cannot be opened or the collection is
\* empty; on a dimension mismatch the index directory is removed and the
\* answer is False; a dimension check that raises is ignored.
index_exists(s, name, dim, env) ==
    IF env.open_raises THEN [result |-> FALSE, store |-> s]
    ELSE IF s[name].nodes = {} THEN [result |-> FALSE, store |-> s]
    ELSE IF env.dim_check_raises THEN [result |-> TRUE, store |-> s]
    ELSE IF s[name].dim # dim
         THEN [result |-> FALSE, store |-> [s EXCEPT ![name] = EmptyCollection]]
    ELSE [result |-> TRUE, store |-> s]

CallName == get_index_name(idx_call.triple[1], idx_call.triple[2], idx_call.triple[3])

\* nodes[i : i + batch_size] of a list of n nodes, numbered 1..n
Batch(n, i) == { k \in 1..n : i < k /\ k <= i + batch_size }

\* the retry is itself retried
AfterRetry_again(i, ok) == IF ok THEN i + batch_size ELSE i

\* after the retry the loop moves on to the next batch, whatever it did
AfterRetry(i, ok) == i + batch_size

NoCall == [entry |-> "none", triple |-> <<<<>>, <<>>, <<>>>>, urls |-> 0, nodes |-> 0]
NoPre == [store |-> [n \in AllIndexNames |-> EmptyCollection], exists |-> FALSE,
          env |-> [open_raises |-> FALSE, dim_check_raises |-> FALSE], dim |-> 0]

\* create_index from its first line: the create-or-get test, then the
\* documents are split into n nodes and an empty index is opened
EnterCreateIndex(n, env, first) ==
    LET name == get_index_name(idx_call'.triple[1], idx_call'.triple[2], idx_call'.triple[3])
        chk  == index_exists(store, name, embed_dim, env)
    IN /\ store' = chk.store
       /\ idx_pre' = IF first
                     THEN [store |-> store, exists |-> chk.result, env |-> env, dim |-> embed_dim]
                     ELSE idx_pre
       /\ IF chk.result
          THEN idx_pc' = "done" /\ idx_ret' = name /\ idx_got' = "existing"
          ELSE idx_pc' = "insert" /\ idx_ret' = idx_ret /\ idx_got' = "created"
       /\ idx_i' = 0

\* the tool create_index(library_name, version, language, doc_content, code_snippets)
CallCreateIndex ==
    /\ idx_pc = "idle"
    /\ idx_calls < MaxCalls
    /\ \E t \in Triples, n \in NodeCounts, env \in ExistEnvs :
          /\ idx_call' = [entry |-> "create_index", triple |-> t, urls |-> 0, nodes |-> n]
          /\ EnterCreateIndex(n, env, TRUE)
    /\ idx_log' = <<>>
    /\ idx_scraped' = 0
    /\ idx_calls' = idx_calls + 1
    /\ UNCHANGED embed_dim

\* build_and_index up to its call of create_index: the existence test, and
\* when it fails the scraping of every verified URL and of the changelog
CallBuildAndIndex ==
    /\ idx_pc = "idle"
    /\ idx_calls < MaxCalls
    /\ \E t \in Triples, u \in UrlCounts, n \in NodeCounts, env \in ExistEnvs :
          LET name == get_index_name(t[1], t[2], t[3])
              chk  == index_exists(store, name, embed_dim, env)
          IN /\ idx_call' = [entry |-> "build_and_index", triple |-> t, urls |-> u, nodes |-> n]
             /\ store' = chk.store
             /\ idx_pre' = [store |-> store, exists |-> chk.result, env |-> env, dim |-> embed_dim]
             /\ IF chk.result
                THEN idx_pc' = "done" /\ idx_ret' = name /\ idx_scraped' = 0
                ELSE idx_pc' = "create" /\ idx_ret' = idx_ret /\ idx_scraped' = u
    /\ idx_log' = <<>>
    /\ idx_i' = 0
    /\ idx_calls' = idx_calls + 1
    /\ idx_got' = "none"
    /\ UNCHANGED embed_dim

\* build_and_index calls manager.create_index with the scraped content
BuildCallsCreate ==
    /\ idx_pc = "create"
    /\ \E env \in ExistEnvs :
          /\ idx_call' = idx_call
          /\ EnterCreateIndex(idx_call.nodes, env, FALSE)
    /\ UNCHANGED <<embed_dim, idx_log, idx_scraped, idx_calls>>

\* what a successful insert_nodes(batch) leaves in the collection
Inserted(s, name, batch, dim) ==
    [s EXCEPT ![name] = [nodes |-> s[name].nodes \cup batch, dim |-> dim]]

\* index.insert_nodes(batch) inside the try: it returns, or it raises
\* (a call that raises is taken to have stored nothing)
InsertBatch ==
    /\ idx_pc = "insert"
    /\ idx_i < idx_call.nodes
    /\ \E ok \in BOOLEAN :
          /\ idx_log' = Append(idx_log, [start |-> idx_i, batch |-> Batch(idx_call.nodes, idx_i), ok |-> ok])
          /\ IF ok
             THEN /\ store' = Inserted(store, CallName, Batch(idx_call.nodes, idx_i), embed_dim)
                  /\ idx_i' = idx_i + batch_size
                  /\ idx_pc' = "insert"
             ELSE /\ store' = store
                  /\ idx_i' = idx_i
                  /\ idx_pc' = "retry"
    /\ UNCHANGED <<embed_dim, idx_call, idx_scraped, idx_ret, idx_pre, idx_calls, idx_got>>

\* the except branch: the same batch once more, its failure only logged
RetryBatch ==
    /\ idx_pc = "retry"
    /\ \E ok \in BOOLEAN :
          /\ idx_log' = Append(idx_log, [start |-> idx_i, batch |-> Batch(idx_call.nodes, idx_i), ok |-> ok])
          /\ store' = IF ok THEN Inserted(store, CallName, Batch(idx_call.nodes, idx_i), embed_dim)
                      ELSE store
          /\ idx_i' = AfterRetry(idx_i, ok)
    /\ idx_pc' = "insert"
    /\ UNCHANGED <<embed_dim, idx_call, idx_scraped, idx_ret, idx_pre, idx_calls, idx_got>>

\* range(0, len(nodes), batch_size) is exhausted: return index_name
ReturnIndexName ==
    /\ idx_pc = "insert"
    /\ idx_i >= idx_call.nodes
    /\ idx_pc' = "done"
    /\ idx_ret' = CallName
    /\ UNCHANGED <<store, embed_dim, idx_call, idx_i, idx_log, idx_scraped, idx_pre, idx_calls, idx_got>>

\* the caller has its answer; the manager waits for the next call
CallReturned ==
    /\ idx_pc = "done"
    /\ idx_pc' = "idle"
    /\ idx_call' = NoCall
    /\ idx_i' = 0
    /\ idx_log' = <<>>
    /\ idx_scraped' = 0
    /\ idx_ret' = <<>>
    /\ idx_pre' = NoPre
    /\ idx_got' = "none"
    /\ UNCHANGED <<store, embed_dim, idx_calls>>

\* the process is restarted with another embedding model
SwitchEmbedModel ==
    /\ idx_pc = "idle"
    /\ \E d \in Dims \ {embed_dim} : embed_dim' = d
    /\ UNCHANGED <<store, idx_pc, idx_call, idx_i, idx_log, idx_scraped, idx_ret, idx_pre, idx_calls, idx_got>>

IdxInit ==
    /\ store = [n \in AllIndexNames |-> EmptyCollection]
    /\ embed_dim = 1
    /\ idx_pc = "idle"
    /\ idx_call = NoCall
    /\ idx_i = 0
    /\ idx_log = <<>>
    /\ idx_scraped = 0
    /\ idx_ret = <<>>
    /\ idx_pre = NoPre
    /\ idx_calls = 0
    /\ idx_got = "none"

(* ======================================================================= *)
(*        tools/github_tool.py: GitHubTool._extract_python_functions       *)
(* ======================================================================= *)
\* A Python file is its parse result: whether ast.parse succeeds, its import
\* statements, and its function / async function / class definitions.
\* Definitions are numbered in source order; parent[d] is the definition
\* that directly encloses d (0 at module level); uses[d] are the Name and
\* Attribute nodes of d's own body, outside any nested definition.
LibraryName == "pandas"

DefIds == {1, 2, 3}
DefKinds == {"FunctionDef", "AsyncFunctionDef", "ClassDef"}

\* import <name> [as <asname>]  /  from <module> import <name> [as <asname>]
ImportStmts ==
    { [stmt |-> "Import", module |-> None, name |-> "pandas", asname |-> None],
      [stmt |-> "Import", module |-> None, name |-> "pandas", asname |-> "pd"],
      [stmt |-> "Import", module |-> None, name |-> "numpy", asname |-> "pd"],
      [stmt |-> "ImportFrom", module |-> "pandas", name |-> "read_csv", asname |-> None],
      [stmt |-> "ImportFrom", module |-> "pandas", name |-> "read_csv", asname |-> "rc"],
      [stmt |-> "ImportFrom", module |-> "os", name |-> "read_csv", asname |-> None] }

\* AST nodes of an expression: Name(id), and Attribute(value, attr) with
\* base = value.id when value is a Name and None otherwise
NameNode(id) == [node |-> "Name", id |-> id, base |-> None]
AttrNode(base) == [node |-> "Attribute", id |-> None, base |-> base]

\* the expressions a body is made of, each as the nodes ast.walk yields
Expressions ==
    { {},                                                   \* no library-like expression
      {AttrNode("pd"), NameNode("pd")},                     \* pd.DataFrame
      {AttrNode("pandas"), NameNode("pandas")},             \* pandas.DataFrame
      {NameNode("read_csv")},                               \* read_csv(...)
      {NameNode("rc")},                                     \* rc(...)
      {AttrNode(None), AttrNode("self"), NameNode("self"),  \* self.pd.DataFrame(pd):
       NameNode("pd")}                                      \*   no Attribute on a Name pd
    }

\* parent arrays of three definitions in source order
Shapes ==
    { p \in [DefIds -> {0, 1, 2}] :
        /\ p[1] = 0
        /\ p[2] \in {0, 1}
        /\ p[3] \in {0, 2} \cup (IF p[2] = 1 THEN {1} ELSE {}) }

\* a class with methods, functions only, a class inside a function
KindChoices ==
    { <<"ClassDef", "FunctionDef", "AsyncFunctionDef">>,
      <<"FunctionDef", "AsyncFunctionDef", "FunctionDef">>,
      <<"AsyncFunctionDef", "ClassDef", "FunctionDef">> }

PyFiles ==
    { [parse_ok |-> TRUE, imports |-> i, parent |-> p, kind |-> k, uses |-> u] :
        i \in {x \in SUBSET ImportStmts : Cardinality(x) <= 2},
        p \in Shapes,
        k \in KindChoices,
        u \in [DefIds -> Expressions] }
    \cup
    { [parse_ok |-> FALSE, imports |-> {}, parent |-> [d \in DefIds |-> 0],
       kind |-> [d \in DefIds |-> "FunctionDef"], uses |-> [d \in DefIds |-> {}]] }

VARIABLES
    py_pc,       \* "idle", or "done" when a call has returned
    py_file,     \* the file _extract_python_functions was called on
    py_relevant, \* relevant_nodes after pass 2, before deduplication
    py_snippets  \* the returned snippets: definition, line_start, line_end

pyVars == <<py_pc, py_file, py_relevant, py_snippets>>

\* alias.asname or alias.name
BoundName(stmt) == IF stmt.asname # None THEN stmt.asname ELSE stmt.name

\* pass 1, the walk over the import statements
ImportAliases(file, library_name) ==
    { BoundName(s) : s \in { x \in file.imports :
                               x.stmt = "Import" /\ x.name = library_name } }

ImportedSymbols(file, library_name) ==
    { BoundName(s) : s \in { x \in file.imports :
                               x.stmt = "ImportFrom" /\ x.module = library_name } }

\* pass 1: library_aliases when pass 2 starts; the library's own name is
\* added when it is not an alias and no symbol was imported
LibraryAliases(file, library_name) ==
    LET aliases == ImportAliases(file, library_name)
    IN IF library_name \notin aliases /\ ImportedSymbols(file, library_name) = {}
       THEN aliases \cup {library_name}
       ELSE aliases

\* d is a or lies inside a
RECURSIVE Encloses(_, _, _)
Encloses(file, a, d) ==
    IF d = 0 THEN FALSE
    ELSE IF d = a THEN TRUE
    ELSE Encloses(file, a, file.parent[d])

Children(file, d) == { c \in DefIds : file.parent[c] = d }

\* ast.walk(node): the nodes of the definition's body, nested definitions included
RECURSIVE WalkNodes(_, _)
WalkNodes(file, d) ==
    file.uses[d] \cup UNION { WalkNodes(file, c) : c \in Children(file, d) }

\* LibraryUsageVisitor._uses_library
UsesLibrary(file, d, aliases, symbols) ==
    \E n \in WalkNodes(file, d) :
        \/ n.node = "Attribute" /\ n.base # None /\ n.base \in aliases
        \/ n.node = "Name" /\ n.id \in symbols

\* LibraryUsageVisitor: visit_FunctionDef / visit_AsyncFunctionDef /
\* visit_ClassDef append the definition when it uses the library, then
\* generic_visit goes on into its body; the result is in source order
RECURSIVE VisitAll(_, _, _, _)
Visit(file, d, aliases, symbols) ==
    (IF UsesLibrary(file, d, aliases, symbols) THEN <<d>> ELSE <<>>)
        \o VisitAll(file, Children(file, d), aliases, symbols)

VisitAll(file, ds, aliases, symbols) ==
    IF ds = {} THEN <<>>
    ELSE LET d == CHOOSE x \in ds : \A y \in ds : x <= y
         IN Visit(file, d, aliases, symbols)
                \o VisitAll(file, {y \in ds : y > d /\ ~Encloses(file, d, y)}, aliases, symbols)

\* node.lineno and node.end_lineno: every definition takes a header line and
\* a body line of its own, and ends with its last nested definition
Lineno(file, d) == 2 * d - 1
EndLineno(file, d) ==
    2 * (CHOOSE m \in DefIds : Encloses(file, d, m)
                                /\ \A y \in DefIds : Encloses(file, d, y) => y <= m)

SeqRange(q) == { q[i] : i \in 1..Len(q) }

RECURSIVE SeqFilter(_, _)
SeqFilter(q, keep) ==
    IF q = <<>> THEN <<>>
    ELSE (IF q[1] \in keep THEN <<q[1]>> ELSE <<>>) \o SeqFilter(Tail(q), keep)

\* a deduplication that keeps every matched definition
Deduplicate_none(file, relevant) == relevant

\* deduplicate: a matched class covers the matched functions inside its lines
Deduplicate(file, relevant) ==
    LET covered == { <<Lineno(file, c), EndLineno(file, c)>> :
                       c \in { x \in SeqRange(relevant) : file.kind[x] = "ClassDef" } }
        keep == { d \in SeqRange(relevant) :
                    \/ file.kind[d] = "ClassDef"
                    \/ ~\E r \in covered :
                          r[1] <= Lineno(file, d) /\ EndLineno(file, d) <= r[2] }
    IN SeqFilter(relevant, keep)

\* pass 2 of _extract_python_functions: relevant_nodes before deduplication
RelevantNodes(file, library_name) ==
    LET aliases == LibraryAliases(file, library_name)
        symbols == ImportedSymbols(file, library_name)
    IN IF ~file.parse_ok THEN <<>>
       ELSE IF aliases = {} /\ symbols = {} THEN <<>>
       ELSE VisitAll(file, Children(file, 0), aliases, symbols)

\* the CodeSnippet list the function returns
Snippets(file, relevant) ==
    LET kept == Deduplicate(file, relevant)
    IN [ i \in 1..Len(kept) |->
           [ def |-> kept[i], line_start |-> Lineno(file, kept[i]),
             line_end |-> EndLineno(file, kept[i]) ] ]

NoFile == [parse_ok |-> FALSE, imports |-> {}, parent |-> [d \in DefIds |-> 0],
           kind |-> [d \in DefIds |-> "FunctionDef"], uses |-> [d \in DefIds |-> {}]]

\* one call _extract_python_functions(code, library_name, file_path, repo_name)
ExtractPythonFunctions ==
    /\ py_pc = "idle"
    /\ py_pc' = "done"
    /\ \E file \in PyFiles :
          /\ py_file' = file
          /\ py_relevant' = RelevantNodes(file, LibraryName)
          /\ py_snippets' = Snippets(file, RelevantNodes(file, LibraryName))

\* extract_function_snippets takes the snippets and goes on to the next file
NextFile ==
    /\ py_pc = "done"
    /\ py_pc' = "idle"
    /\ py_file' = NoFile
    /\ py_relevant' = <<>>
    /\ py_snippets' = <<>>

PyInit ==
    /\ py_pc = "idle"
    /\ py_file = NoFile
    /\ py_relevant = <<>>
    /\ py_snippets = <<>>

(* ======================================================================= *)
(*           tools/github_tool.py: GitHubTool._find_closing_brace          *)
(* ======================================================================= *)
\* characters that matter to the scan: the two braces and any other one
Chars == {"{", "}", "a"}

\* JavaScript source texts of up to MaxLen characters
Codes == UNION { [1..n -> Chars] : n \in 1..MaxLen }

\* code[i], with Python's indices from 0
CharAt(code, i) == code[i + 1]

VARIABLES
    br_pc,     \* "idle", "loop" inside the for loop, "done" when returned
    br_code,   \* the argument code
    br_open,   \* the argument open_pos
    br_i,      \* the loop variable i
    br_depth,  \* the local depth
    br_ret     \* the returned index

brVars == <<br_pc, br_code, br_open, br_i, br_depth, br_ret>>

\* depth after the character at i has been read
DepthAfter(depth, ch) ==
    IF ch = "{" THEN depth + 1
    ELSE IF ch = "}" THEN depth - 1
    ELSE depth

\* a scan that stops at the first closing brace it meets
ClosesHere_first(depth, ch) == ch = "}"

\* the loop returns i: a closing brace that takes depth to zero
ClosesHere(depth, ch) == ch = "}" /\ DepthAfter(depth, ch) = 0

\* body_end = self._find_closing_brace(code, body_start), where body_start
\* is the position of the opening brace the function pattern ended with
CallFindClosingBrace ==
    /\ br_pc = "idle"
    /\ \E code \in Codes :
          \E open_pos \in 0..(Len(code) - 1) :
              /\ CharAt(code, open_pos) = "{"
              /\ br_code' = code
              /\ br_open' = open_pos
              /\ br_i' = open_pos
    /\ br_depth' = 0
    /\ br_pc' = "loop"
    /\ UNCHANGED br_ret

\* one iteration of `for i in range(open_pos, len(code))`
ScanChar ==
    /\ br_pc = "loop"
    /\ br_i < Len(br_code)
    /\ LET ch == CharAt(br_code, br_i)
       IN /\ br_depth' = DepthAfter(br_depth, ch)
          /\ IF ClosesHere(br_depth, ch)
             THEN /\ br_ret' = br_i
                  /\ br_pc' = "done"
                  /\ UNCHANGED br_i
             ELSE /\ br_i' = br_i + 1
                  /\ UNCHANGED <<br_ret, br_pc>>
    /\ UNCHANGED <<br_code, br_open>>

\* the range is exhausted: return -1
ReturnNotFound ==
    /\ br_pc = "loop"
    /\ br_i >= Len(br_code)
    /\ br_ret' = -1
    /\ br_pc' = "done"
    /\ UNCHANGED <<br_code, br_open, br_i, br_depth>>

\* the caller takes body_end and goes on to the next match
NextMatch ==
    /\ br_pc = "done"
    /\ br_pc' = "idle"
    /\ br_code' = <<>>
    /\ br_open' = 0
    /\ br_i' = 0
    /\ br_depth' = 0
    /\ br_ret' = -1

BrInit ==
    /\ br_pc = "idle"
    /\ br_code = <<>>
    /\ br_open = 0
    /\ br_i = 0
    /\ br_depth = 0
    /\ br_ret = -1

(* ======================================================================= *)
(*          tools/version_checker.py: VersionChecker.detect_language       *)
(* ======================================================================= *)
\* status codes a registry answers a HEAD request with (after redirects)
StatusCodes == {200, 204, 403, 404, 500}

\* what self.client.head(url, follow_redirects=True) does: a response, or
\* an exception (timeout, connection error)
HeadResponses ==
    { [raised |-> FALSE, status_code |-> c] : c \in StatusCodes }
        \cup { [raised |-> TRUE, status_code |-> 0] }

NoResponse == [raised |-> TRUE, status_code |-> 0]

VARIABLES
    dl_pc,           \* "idle", "gather" while the two checks run, "done"
    dl_pypi,         \* what the HEAD request to pypi.org does
    dl_npm,          \* what the HEAD request to registry.npmjs.org does
    dl_pypi_exists,  \* result of _check_exists(pypi_url), None while pending
    dl_npm_exists,   \* result of _check_exists(npm_url), None while pending
    dl_ret           \* the value detect_language returned

dlVars == <<dl_pc, dl_pypi, dl_npm, dl_pypi_exists, dl_npm_exists, dl_ret>>

\* a check that takes every answer for existence
_check_exists_answered(response) ==
    IF response.raised THEN PyFalse ELSE PyTrue

\* _check_exists: status_code == 200, and False when the request raises
_check_exists(response) ==
    IF response.raised THEN PyFalse
    ELSE IF response.status_code = 200 THEN PyTrue ELSE PyFalse

\* the if / elif chain of detect_language
detect_language(pypi_exists, npm_exists) ==
    IF pypi_exists = PyTrue /\ npm_exists # PyTrue THEN "python"
    ELSE IF npm_exists = PyTrue /\ pypi_exists # PyTrue THEN "javascript"
    ELSE IF pypi_exists = PyTrue /\ npm_exists = PyTrue THEN "both"
    ELSE None

\* detect_language(library_name) starts the two checks with asyncio.gather
CallDetectLanguage ==
    /\ dl_pc = "idle"
    /\ dl_pc' = "gather"
    /\ dl_pypi' \in HeadResponses
    /\ dl_npm' \in HeadResponses
    /\ UNCHANGED <<dl_pypi_exists, dl_npm_exists, dl_ret>>

\* self._check_exists(pypi_url) completes
CheckPyPI ==
    /\ dl_pc = "gather"
    /\ dl_pypi_exists = None
    /\ dl_pypi_exists' = _check_exists(dl_pypi)
    /\ UNCHANGED <<dl_pc, dl_pypi, dl_npm, dl_npm_exists, dl_ret>>

\* self._check_exists(npm_url) completes
CheckNpm ==
    /\ dl_pc = "gather"
    /\ dl_npm_exists = None
    /\ dl_npm_exists' = _check_exists(dl_npm)
    /\ UNCHANGED <<dl_pc, dl_pypi, dl_npm, dl_pypi_exists, dl_ret>>

\* gather has both results: the if / elif chain returns
ReturnLanguage ==
    /\ dl_pc = "gather"
    /\ dl_pypi_exists # None
    /\ dl_npm_exists # None
    /\ dl_ret' = detect_language(dl_pypi_exists, dl_npm_exists)
    /\ dl_pc' = "done"
    /\ UNCHANGED <<dl_pypi, dl_npm, dl_pypi_exists, dl_npm_exists>>

\* the caller has the answer; the next call starts afresh
DetectReturned ==
    /\ dl_pc = "done"
    /\ dl_pc' = "idle"
    /\ dl_pypi' = NoResponse
    /\ dl_npm' = NoResponse
    /\ dl_pypi_exists' = None
    /\ dl_npm_exists' = None
    /\ dl_ret' = None

DlInit ==
    /\ dl_pc = "idle"
    /\ dl_pypi = NoResponse
    /\ dl_npm = NoResponse
    /\ dl_pypi_exists = None
    /\ dl_npm_exists = None
    /\ dl_ret = None

(* ======================================================================= *)
(*                        app.py: get_agent_response                       *)
(* ======================================================================= *)
\* the fixed last resort of get_agent_response
CouldNotProcessMsg == "I couldn't process that request. Could you try rephrasing?"

\* the heading of the error listing (its warning sign written in ASCII)
WentWrongHeader == "(!) Something went wrong:\n"

TextKeys == {"qa_response", "final_markdown", "tutorial_draft"}

\* what a text key of the result holds: None, the empty string or a text
\* (each key with a text of its own)
TextOf(k) ==
    IF k = "qa_response" THEN "answer"
    ELSE IF k = "final_markdown" THEN "tutorial"
    ELSE "draft"

\* the text keys of a result: any of them may be missing (the result is
\* the update of the last node that ran)
TextParts ==
    UNION { { f \in [K -> {None, "", "answer", "tutorial", "draft"}] :
                \A k \in K : f[k] \in {None, "", TextOf(k)} } : K \in SUBSET TextKeys }

ErrorLists == { <<>>, <<"e1">>, <<"e1", "e2">> }

ErrorParts == {EmptyDict} \cup { ("errors" :> q) : q \in ErrorLists }

ResultDicts == { t @@ e : t \in TextParts, e \in ErrorParts }

VARIABLES
    gar_pc,      \* "idle", or "done" when get_agent_response has returned
    gar_result,  \* the argument result
    gar_ret      \* the returned string

garVars == <<gar_pc, gar_result, gar_ret>>

\* "\n".join(f"* {e}" for e in errors) (the bullet written in ASCII)
RECURSIVE JoinBullets(_)
JoinBullets(errors) ==
    IF errors = <<>> THEN ""
    ELSE IF Len(errors) = 1 THEN "* " \o errors[1]
    ELSE "* " \o errors[1] \o "\n" \o JoinBullets(Tail(errors))

ErrorListing(errors) == WentWrongHeader \o JoinBullets(errors)

\* a variant that looks at the draft before the final tutorial
get_agent_response_draft_first(result) ==
    IF Truthy(Get(result, "qa_response", None)) THEN result["qa_response"]
    ELSE IF Truthy(Get(result, "tutorial_draft", None)) THEN result["tutorial_draft"]
    ELSE IF Truthy(Get(result, "final_markdown", None)) THEN result["final_markdown"]
    ELSE IF Get(result, "errors", <<>>) # <<>> THEN ErrorListing(result["errors"])
    ELSE CouldNotProcessMsg

get_agent_response(result) ==
    IF Truthy(Get(result, "qa_response", None)) THEN result["qa_response"]
    ELSE IF Truthy(Get(result, "final_markdown", None)) THEN result["final_markdown"]
    ELSE IF Truthy(Get(result, "tutorial_draft", None)) THEN result["tutorial_draft"]
    ELSE IF Get(result, "errors", <<>>) # <<>> THEN ErrorListing(result["errors"])
    ELSE CouldNotProcessMsg

\* response = get_agent_response(result)
CallGetAgentResponse ==
    /\ gar_pc = "idle"
    /\ gar_pc' = "done"
    /\ \E result \in ResultDicts :
          /\ gar_result' = result
          /\ gar_ret' = get_agent_response(result)

\* the response is appended to the messages; the next request is awaited
ResponseShown ==
    /\ gar_pc = "done"
    /\ gar_pc' = "idle"
    /\ gar_result' = EmptyDict
    /\ gar_ret' = ""

GarInit ==
    /\ gar_pc = "idle"
    /\ gar_result = EmptyDict
    /\ gar_ret = ""

(* ======================================================================= *)
(*               app.py: the session's messages and chat_history           *)
(* ======================================================================= *)
UserTexts == {"hello", "more"}
AgentTexts == {"reply"}

\* {"role": "user", "content": prompt}
UserMessage(content) == [role |-> "user", content |-> content]

\* {"role": "agent", "content": response, "is_markdown": ..., "steps": steps}
AgentMessage(content) ==
    [role |-> "agent", content |-> content, is_markdown |-> FALSE, steps |-> <<>>]

VARIABLES
    ch_messages,    \* st.session_state.messages
    ch_started,     \* st.session_state.chat_started
    ch_processing,  \* st.session_state.processing
    ch_running,     \* run_workflow_streaming has built the initial state
    ch_query,       \* user_query of the run
    ch_history      \* chat_history of the run's initial state

chVars == <<ch_messages, ch_started, ch_processing, ch_running, ch_query, ch_history>>

\* a slice that takes the whole list
LastN_all(q, n) == q

\* q[-n:]
LastN(q, n) == IF Len(q) <= n THEN q ELSE SubSeq(q, Len(q) - n + 1, Len(q))

\* [{"role": m["role"], "content": m["content"]} for m in recent
\*      if m["role"] in ("user", "agent")]
RECURSIVE RoleContent(_)
RoleContent(q) ==
    IF q = <<>> THEN <<>>
    ELSE (IF q[1].role \in {"user", "agent"}
          THEN <<[role |-> q[1].role, content |-> q[1].content]>>
          ELSE <<>>) \o RoleContent(Tail(q))

\* build_initial_state: chat_history from st.session_state.messages
chat_history(messages) == LastN(RoleContent(LastN(messages, 10)), 10)

\* landing page: the first prompt
LandingPrompt ==
    /\ ~ch_started
    /\ \E prompt \in UserTexts :
          ch_messages' = Append(ch_messages, UserMessage(prompt))
    /\ ch_started' = TRUE
    /\ ch_processing' = TRUE
    /\ UNCHANGED <<ch_running, ch_query, ch_history>>

\* chat page, "Process pending request": run_workflow_streaming is called
\* with the last message's content and builds the initial state
StartRun ==
    /\ ch_started /\ ch_processing /\ ~ch_running
    /\ ch_query' = ch_messages[Len(ch_messages)].content
    /\ ch_history' = chat_history(ch_messages)
    /\ ch_running' = TRUE
    /\ UNCHANGED <<ch_messages, ch_started, ch_processing>>

\* the run returned: its response is appended as an agent message
RunReturns ==
    /\ ch_running
    /\ \E response \in AgentTexts :
          ch_messages' = Append(ch_messages, AgentMessage(response))
    /\ ch_processing' = FALSE
    /\ ch_running' = FALSE
    /\ UNCHANGED <<ch_started, ch_query, ch_history>>

\* the run raised: an error message is appended as an agent message
RunFails ==
    /\ ch_running
    /\ ch_messages' = Append(ch_messages, AgentMessage("Error"))
    /\ ch_processing' = FALSE
    /\ ch_running' = FALSE
    /\ UNCHANGED <<ch_started, ch_query, ch_history>>

\* chat input for follow-ups
FollowUp ==
    /\ ch_started /\ ~ch_processing
    /\ Len(ch_messages) < MaxMessages
    /\ \E follow_up \in UserTexts :
          ch_messages' = Append(ch_messages, UserMessage(follow_up))
    /\ ch_processing' = TRUE
    /\ UNCHANGED <<ch_started, ch_running, ch_query, ch_history>>

ChInit ==
    /\ ch_messages = <<>>
    /\ ch_started = FALSE
    /\ ch_processing = FALSE
    /\ ch_running = FALSE
    /\ ch_query = ""
    /\ ch_history = <<>>

(* ----------------------------- specifications ------------------------- *)
\* the state of the functions that are checked by themselves
fnVars == <<brVars, dlVars, garVars, chVars>>

vars == <<wfVars, idxVars, pyVars, fnVars>>

Init == WfInit /\ IdxInit /\ PyInit /\ BrInit /\ DlInit /\ GarInit /\ ChInit

\* the chat session and its workflow runs
Next ==
    \/ SubmitMessage /\ UNCHANGED <<idxVars, pyVars, fnVars>>
    \/ ChatAgent /\ UNCHANGED <<idxVars, pyVars, fnVars>>
    \/ VersionAgent /\ UNCHANGED <<idxVars, pyVars, fnVars>>
    \/ ResearchAgent /\ UNCHANGED <<idxVars, pyVars, fnVars>>
    \/ WriterAgent /\ UNCHANGED <<idxVars, pyVars, fnVars>>
    \/ CritiqueAgent /\ UNCHANGED <<idxVars, pyVars, fnVars>>
    \/ FinishRun /\ UNCHANGED <<idxVars, pyVars, fnVars>>

Spec == Init /\ [][Next]_vars

\* calls of create_index and build_and_index on one persistent store
NextIndex ==
    \/ CallCreateIndex /\ UNCHANGED <<wfVars, pyVars, fnVars>>
    \/ CallBuildAndIndex /\ UNCHANGED <<wfVars, pyVars, fnVars>>
    \/ BuildCallsCreate /\ UNCHANGED <<wfVars, pyVars, fnVars>>
    \/ InsertBatch /\ UNCHANGED <<wfVars, pyVars, fnVars>>
    \/ RetryBatch /\ UNCHANGED <<wfVars, pyVars, fnVars>>
    \/ ReturnIndexName /\ UNCHANGED <<wfVars, pyVars, fnVars>>
    \/ CallReturned /\ UNCHANGED <<wfVars, pyVars, fnVars>>
    \/ SwitchEmbedModel /\ UNCHANGED <<wfVars, pyVars, fnVars>>

SpecIndex == Init /\ [][NextIndex]_vars

\* calls of _extract_python_functions on Python files
NextExtract ==
    \/ ExtractPythonFunctions /\ UNCHANGED <<wfVars, idxVars, fnVars>>
    \/ NextFile /\ UNCHANGED <<wfVars, idxVars, fnVars>>

SpecExtract == Init /\ [][NextExtract]_vars

\* calls of _find_closing_brace from _extract_javascript_functions
NextBrace ==
    \/ CallFindClosingBrace /\ UNCHANGED <<wfVars, idxVars, pyVars, dlVars, garVars, chVars>>
    \/ ScanChar /\ UNCHANGED <<wfVars, idxVars, pyVars, dlVars, garVars, chVars>>
    \/ ReturnNotFound /\ UNCHANGED <<wfVars, idxVars, pyVars, dlVars, garVars, chVars>>
    \/ NextMatch /\ UNCHANGED <<wfVars, idxVars, pyVars, dlVars, garVars, chVars>>

SpecBrace == Init /\ [][NextBrace]_vars

\* calls of VersionChecker.detect_language
NextDetect ==
    \/ CallDetectLanguage /\ UNCHANGED <<wfVars, idxVars, pyVars, brVars, garVars, chVars>>
    \/ CheckPyPI /\ UNCHANGED <<wfVars, idxVars, pyVars, brVars, garVars, chVars>>
    \/ CheckNpm /\ UNCHANGED <<wfVars, idxVars, pyVars, brVars, garVars, chVars>>
    \/ ReturnLanguage /\ UNCHANGED <<wfVars, idxVars, pyVars, brVars, garVars, chVars>>
    \/ DetectReturned /\ UNCHANGED <<wfVars, idxVars, pyVars, brVars, garVars, chVars>>

SpecDetect == Init /\ [][NextDetect]_vars

\* calls of get_agent_response
NextResponse ==
    \/ CallGetAgentResponse /\ UNCHANGED <<wfVars, idxVars, pyVars, brVars, dlVars, chVars>>
    \/ ResponseShown /\ UNCHANGED <<wfVars, idxVars, pyVars, brVars, dlVars, chVars>>

SpecResponse == Init /\ [][NextResponse]_vars

\* the messages of a chat session and the chat_history of its runs
NextChat ==
    \/ LandingPrompt /\ UNCHANGED <<wfVars, idxVars, pyVars, brVars, dlVars, garVars>>
    \/ StartRun /\ UNCHANGED <<wfVars, idxVars, pyVars, brVars, dlVars, garVars>>
    \/ RunReturns /\ UNCHANGED <<wfVars, idxVars, pyVars, brVars, dlVars, garVars>>
    \/ RunFails /\ UNCHANGED <<wfVars, idxVars, pyVars, brVars, dlVars, garVars>>
    \/ FollowUp /\ UNCHANGED <<wfVars, idxVars, pyVars, brVars, dlVars, garVars>>

SpecChat == Init /\ [][NextChat]_vars

(* ======================================================================= *)
(*                         properties of the workflow                      *)
(* ======================================================================= *)
RunEnded == phase = "running" /\ active = {} /\ trace # <<>>

Executions(n) == Cardinality({i \in 1..Len(trace) : trace[i] = n})

GraphEdges ==
    { <<"chat_agent", "version_agent">>, <<"version_agent", "research_agent">>,
      <<"research_agent", "writer_agent">>, <<"writer_agent", "critique_agent">>,
      <<"critique_agent", "writer_agent">> }

\* C1: every run starts at chat_agent and the executed stages form a path of
\* chat_agent -> version_agent -> research_agent -> writer_agent ->
\* critique_agent with critique_agent -> writer_agent as the only back edge:
\* chat_agent, version_agent and research_agent execute at most once, the
\* writer is entered only from research or critique, critique only from the
\* writer.
C1_GraphPath ==
    /\ (phase = "running" /\ trace = <<>>) => active = {"chat_agent"}
    /\ trace # <<>> => trace[1] = "chat_agent"
    /\ \A i \in 1..(Len(trace) - 1) : <<trace[i], trace[i + 1]>> \in GraphEdges
    /\ trace # <<>> => \A n \in active : <<trace[Len(trace)], n>> \in GraphEdges
    /\ \A n \in {"chat_agent", "version_agent", "research_agent"} : Executions(n) <= 1

\* a finished run that took the back edge
C1_Witness ==
    /\ RunEnded
    /\ \E i \in 1..(Len(trace) - 1) :
          trace[i] = "critique_agent" /\ trace[i + 1] = "writer_agent"

\* C2 (as claimed): in a run started with iteration_count = 0 and
\* max_iterations = 3, writer_agent executes at most max_iterations times.
\* A writer call that raises is routed to critique_agent without counting
\* the iteration, so the reviewer can send the run back to the writer again.
C2_WriterBounded == Executions("writer_agent") <= st.max_iterations

\* C3 (as claimed): a stage whose agent call raises appends exactly one
\* message to errors and routes the run to __end__.
C3_UniformFallback ==
    (phase = "running" /\ last.outcome = "raise") =>
        /\ Len(st.errors) = last.errs_before + 1
        /\ active = {}

\* C4 (as claimed): a run that ends with final_markdown written during the
\* run ended on an 'approve' decision of critique_agent.
C4_OnlyValidated ==
    (RunEnded /\ fm_written) => last.decision = "approve"

\* C4 (amended): a run that ends with final_markdown written during the run
\* ended at critique_agent, either on an 'approve' decision, or through the
\* fallback (iteration cap reached, or the reviewer call raised), which
\* delivers the current draft with validation_passed = False and one more
\* entry in errors.
C4_ValidatedOrFlagged ==
    (RunEnded /\ fm_written) =>
        /\ last.node = "critique_agent"
        /\ \/ last.outcome = "ok" /\ last.decision = "approve"
           \/ /\ last.outcome \in {"cap", "raise"}
              /\ st.final_markdown = st.tutorial_draft
              /\ st.validation_passed = PyFalse
              /\ Len(st.errors) = last.errs_before + 1

\* a run that delivered a draft the reviewer had asked to revise
C4_Witness ==
    /\ RunEnded /\ fm_written
    /\ last.outcome = "cap" /\ last.decision = "revise"
    /\ Truthy(st.final_markdown)

\* C5 (as claimed): after a run through version_agent, research_agent and
\* writer_agent that ended at critique_agent with a tutorial, the next run
\* starts with the lib_name, target_version, doc_index_id, research_summary
\* and final_markdown the finished run's state held at its end.
C5_ResultsPersist ==
    (phase = "running" /\ trace = <<>> /\ prev_end.full
        /\ Truthy(prev_end.st.final_markdown)) =>
            \A k \in KeyFields : st[k] = prev_end.st[k]

\* C6: within a run at most one stage is scheduled or executing at a time,
\* and the update of the stage that ran last is in the shared state before
\* the next stage starts.
C6_Sequential ==
    /\ Cardinality(active) <= 1
    /\ (phase = "running" /\ trace # <<>>) =>
          /\ \A k \in DOMAIN final_result \ {"errors"} : st[k] = final_result[k]
          /\ "errors" \in DOMAIN final_result =>
                /\ Len(st.errors) = last.errs_before + Len(final_result.errors)
                /\ \A i \in 1..Len(final_result.errors) :
                      st.errors[last.errs_before + i] = final_result.errors[i]

\* the critique stage about to start on the writer's second draft
C6_Witness ==
    /\ phase = "running"
    /\ active = {"critique_agent"}
    /\ st.current_agent = "writer_agent"
    /\ st.iteration_count = 2


(* ======================================================================= *)
(*                          properties of the index                        *)
(* ======================================================================= *)
\* the batch starts of range(0, n, batch_size)
BatchStarts(n) == { b \in 0..(n - 1) : b % batch_size = 0 }

\* the positions of the log at which batch b was attempted
Attempts(b) == { j \in 1..Len(idx_log) : idx_log[j].start = b }

\* batch b has been dealt with: one attempt that succeeded, or a failed
\* attempt followed by exactly one retry
Settled(b) ==
    \E j \in Attempts(b) :
        \/ idx_log[j].ok /\ Attempts(b) = {j}
        \/ ~idx_log[j].ok /\ Attempts(b) = {j, j + 1}

\* C7: create_index inserts the nodes in batches of 5 in order; a batch
\* whose insert raises is retried exactly once, a batch whose retry also
\* raises is skipped, every later batch is still attempted, and the index
\* name is returned in all of these cases.
C7_RetryOnce ==
    /\ \A j \in 1..Len(idx_log) :
          /\ idx_log[j].start \in BatchStarts(idx_call.nodes)
          /\ idx_log[j].batch =
                { k \in 1..idx_call.nodes :
                     idx_log[j].start < k /\ k <= idx_log[j].start + 5 }
          /\ j > 1 => idx_log[j - 1].start <= idx_log[j].start
    /\ idx_got = "created" =>
          \A b \in BatchStarts(idx_call.nodes) :
             /\ b < idx_i => Settled(b)
             /\ b > idx_i => Attempts(b) = {}
             /\ (b = idx_i /\ idx_pc = "insert") => Attempts(b) = {}
             /\ (b = idx_i /\ idx_pc = "retry") =>
                   \E j \in 1..Len(idx_log) : Attempts(b) = {j} /\ ~idx_log[j].ok
    /\ (idx_got = "created" /\ idx_pc = "done") =>
          /\ \A b \in BatchStarts(idx_call.nodes) : Settled(b)
          /\ idx_ret = CallName

\* a call that returned after a batch failed twice and a later batch was
\* still inserted
C7_Witness ==
    /\ idx_pc = "done" /\ idx_got = "created" /\ idx_ret = CallName
    /\ \E j \in 1..Len(idx_log), l \in 1..Len(idx_log) :
          /\ j + 1 < l
          /\ ~idx_log[j].ok /\ ~idx_log[j + 1].ok
          /\ idx_log[j].start = idx_log[j + 1].start
          /\ idx_log[l].start > idx_log[j].start /\ idx_log[l].ok

\* the call found a populated index under its name
PopulatedAtCall == idx_pre.store[CallName].nodes # {}

\* the call returned the existing index and touched nothing
ReturnedExisting ==
    /\ idx_ret = CallName
    /\ idx_scraped = 0
    /\ idx_log = <<>>
    /\ store = idx_pre.store

\* C8 (as claimed): when a populated index exists for (library_name,
\* version, language), create_index and build_and_index return its name
\* without scraping any URL and without inserting any node, and the stored
\* index is left unchanged.
C8_CreateOrGet ==
    (idx_pc = "done" /\ PopulatedAtCall) => ReturnedExisting

\* the existence test can see the index: the store opens, and the stored
\* embedding dimension is not found to differ from the current model's
\* (it is equal, or the dimension check itself fails)
SeenAsExisting ==
    /\ ~idx_pre.env.open_raises
    /\ \/ idx_pre.env.dim_check_raises
       \/ idx_pre.store[CallName].dim = idx_pre.dim

\* C8 (amended): when a populated index exists for the triple, the store
\* opens and no embedding-dimension mismatch is detected, create_index and
\* build_and_index return its name without scraping any URL and without
\* inserting any node, and the stored index is left unchanged.
C8_CreateOrGetSameModel ==
    (idx_pc = "done" /\ PopulatedAtCall /\ SeenAsExisting) => ReturnedExisting

\* build_and_index repeated on a populated index, with URLs to scrape
C8_Witness ==
    /\ idx_pc = "done" /\ PopulatedAtCall /\ SeenAsExisting
    /\ idx_call.entry = "build_and_index"
    /\ idx_call.urls > 0 /\ idx_call.nodes > 0
    /\ ReturnedExisting


(* ======================================================================= *)
(*                    properties of the Python extraction                  *)
(* ======================================================================= *)
\* the file has neither `import <library>` nor `from <library> import ...`
NoLibraryImport(file) ==
    ~\E s \in file.imports :
        \/ s.stmt = "Import" /\ s.name = LibraryName
        \/ s.stmt = "ImportFrom" /\ s.module = LibraryName

\* C9 (as claimed): for a Python file that contains no import of the
\* library, _extract_python_functions returns no snippets.
C9_NoImportNoSnippets ==
    (py_pc = "done" /\ py_file.parse_ok /\ NoLibraryImport(py_file)) =>
        py_snippets = <<>>

\* the Name and Attribute nodes in the subtree of definition d
SubtreeNodes(file, d) ==
    UNION { file.uses[x] : x \in { y \in DefIds : Encloses(file, d, y) } }

\* the subtree has an attribute access on a name in aliases, or a name in symbols
RefersTo(file, d, aliases, symbols) ==
    \E n \in SubtreeNodes(file, d) :
        \/ n.node = "Attribute" /\ n.base # None /\ n.base \in aliases
        \/ n.node = "Name" /\ n.id \in symbols

\* C10 (as claimed): a function, async function or class definition is
\* selected (before deduplication) exactly when its subtree contains an
\* attribute access whose base name is an alias the import statements bind
\* to the library, or a name that is a symbol imported from the library.
C10_SelectsLibraryUsers ==
    (py_pc = "done" /\ py_file.parse_ok) =>
        \A d \in DefIds :
            d \in SeqRange(py_relevant) <=>
                RefersTo(py_file, d, ImportAliases(py_file, LibraryName),
                         ImportedSymbols(py_file, LibraryName))

\* Pass 2 taken by itself does select exactly the definitions that refer to
\* the sets pass 1 hands it, in source order.
Pass2SelectsOnPass1Sets ==
    (py_pc = "done" /\ py_file.parse_ok) =>
        /\ \A d \in DefIds :
              d \in SeqRange(py_relevant) <=>
                  RefersTo(py_file, d, LibraryAliases(py_file, LibraryName),
                           ImportedSymbols(py_file, LibraryName))
        /\ \A i \in 1..(Len(py_relevant) - 1) : py_relevant[i] < py_relevant[i + 1]

\* the snippet's definition is a class / is a function or async function
IsClassSnippet(file, s) == file.kind[s.def] = "ClassDef"
IsFunctionSnippet(file, s) == file.kind[s.def] \in {"FunctionDef", "AsyncFunctionDef"}

\* C11: after deduplication in _extract_python_functions, no function
\* snippet returned for a file has a line range lying inside the line range
\* of a class snippet returned for the same file.
C11_NoFunctionInsideClassSnippet ==
    py_pc = "done" =>
        \A i, j \in 1..Len(py_snippets) :
            (IsFunctionSnippet(py_file, py_snippets[i]) /\ IsClassSnippet(py_file, py_snippets[j])) =>
                ~(py_snippets[j].line_start <= py_snippets[i].line_start
                    /\ py_snippets[i].line_end <= py_snippets[j].line_end)

\* a matched class with a matched method inside it was deduplicated, and a
\* matched function outside the class was returned next to the class
C11_Witness ==
    /\ py_pc = "done"
    /\ \E c, m \in SeqRange(py_relevant) :
          /\ py_file.kind[c] = "ClassDef"
          /\ py_file.kind[m] # "ClassDef"
          /\ c # m /\ Encloses(py_file, c, m)
          /\ \E i \in 1..Len(py_snippets) : py_snippets[i].def = c
          /\ ~\E i \in 1..Len(py_snippets) : py_snippets[i].def = m
    /\ \E i \in 1..Len(py_snippets) : IsFunctionSnippet(py_file, py_snippets[i])

(* ======================================================================= *)
(*                     properties of _find_closing_brace                   *)
(* ======================================================================= *)
\* opening minus closing braces in code[open_pos .. k]
NestingDepth(code, open_pos, k) ==
    Cardinality({ x \in open_pos..k : CharAt(code, x) = "{" })
        - Cardinality({ x \in open_pos..k : CharAt(code, x) = "}" })

\* the closing braces after open_pos at which the depth is back to zero
ZeroDepthCloses(code, open_pos) ==
    { k \in (open_pos + 1)..(Len(code) - 1) :
        CharAt(code, k) = "}" /\ NestingDepth(code, open_pos, k) = 0 }

\* C12: _find_closing_brace(code, open_pos), with code[open_pos] = '{',
\* returns the index of the first '}' after open_pos at which the brace
\* nesting depth counted from open_pos returns to zero, and returns -1 when
\* there is no such '}'.
C12_FindClosingBrace ==
    (br_pc = "done" /\ CharAt(br_code, br_open) = "{") =>
        LET closes == ZeroDepthCloses(br_code, br_open)
        IN IF closes = {}
           THEN br_ret = -1
           ELSE /\ br_ret \in closes
                /\ \A k \in closes : br_ret <= k

\* a call that returned the brace closing a body with a nested block in it
C12_Witness ==
    /\ br_pc = "done"
    /\ br_ret # -1
    /\ br_open > 0
    /\ \E k \in (br_open + 1)..(br_ret - 1) : CharAt(br_code, k) = "}"

(* ======================================================================= *)
(*                       properties of detect_language                     *)
(* ======================================================================= *)
\* the name exists on a registry: its check got an answer with status 200
ExistsOn(response) == ~response.raised /\ response.status_code = 200

\* C13: detect_language returns 'python' exactly when the name exists on
\* PyPI only, 'javascript' exactly when it exists on npm only, 'both' when
\* it exists on both and None when it exists on neither, where a registry
\* check that raises or answers a status other than 200 counts as not
\* existing.
C13_DetectLanguage ==
    dl_pc = "done" =>
        /\ dl_ret = "python" <=> (ExistsOn(dl_pypi) /\ ~ExistsOn(dl_npm))
        /\ dl_ret = "javascript" <=> (ExistsOn(dl_npm) /\ ~ExistsOn(dl_pypi))
        /\ dl_ret = "both" <=> (ExistsOn(dl_pypi) /\ ExistsOn(dl_npm))
        /\ dl_ret = None <=> (~ExistsOn(dl_pypi) /\ ~ExistsOn(dl_npm))

\* 'python' was returned for a name PyPI answered 200 for while npm
\* answered with another status
C13_Witness ==
    /\ dl_pc = "done"
    /\ dl_ret = "python"
    /\ ~dl_npm.raised
    /\ dl_npm.status_code # 200

(* ======================================================================= *)
(*                     properties of get_agent_response                    *)
(* ======================================================================= *)
\* the key is present in the result with a non-empty text
NonEmptyText(result, k) == k \in DOMAIN result /\ result[k] \notin {None, ""}

\* C14: get_agent_response returns the first non-empty of qa_response,
\* final_markdown, tutorial_draft, in that order; if all three are empty
\* and errors is non-empty it returns the error listing; otherwise it
\* returns the fixed rephrase message.
C14_BestResponse ==
    gar_pc = "done" =>
        LET order == <<"qa_response", "final_markdown", "tutorial_draft">>
            filled == { i \in 1..3 : NonEmptyText(gar_result, order[i]) }
        IN IF filled # {}
           THEN \E i \in filled :
                   /\ \A j \in filled : i <= j
                   /\ gar_ret = gar_result[order[i]]
           ELSE IF "errors" \in DOMAIN gar_result /\ Len(gar_result["errors"]) > 0
           THEN gar_ret = ErrorListing(gar_result["errors"])
           ELSE gar_ret = CouldNotProcessMsg

\* a result with an empty qa_response, a final tutorial and a draft: the
\* final tutorial was returned
C14_Witness ==
    /\ gar_pc = "done"
    /\ "qa_response" \in DOMAIN gar_result
    /\ gar_result["qa_response"] = ""
    /\ NonEmptyText(gar_result, "final_markdown")
    /\ NonEmptyText(gar_result, "tutorial_draft")
    /\ gar_ret = gar_result["final_markdown"]

\* the error listing of two errors is the heading and one bullet line each
ErrorListingOfTwo ==
    (gar_pc = "done" /\ gar_result = ("errors" :> <<"e1", "e2">>)) =>
        gar_ret = "(!) Something went wrong:\n* e1\n* e2"

(* ======================================================================= *)
(*                         properties of chat_history                      *)
(* ======================================================================= *)
\* C16: the chat_history given to a run has at most 10 entries, every
\* entry has role 'user' or 'agent', and the entries are the most recent
\* messages of the session in their session order (the message being
\* processed is the last entry).
C16_ChatHistory ==
    ch_running =>
        LET n == Len(ch_history)
            skipped == Len(ch_messages) - n
        IN /\ n <= 10
           /\ n = IF Len(ch_messages) < 10 THEN Len(ch_messages) ELSE 10
           /\ \A i \in 1..n :
                 /\ ch_history[i].role \in {"user", "agent"}
                 /\ ch_history[i].role = ch_messages[skipped + i].role
                 /\ ch_history[i].content = ch_messages[skipped + i].content
           /\ n >= 1
           /\ ch_history[n].role = "user"
           /\ ch_history[n].content = ch_query

\* a run on the eleventh message of a session: the first message is not in
\* its chat_history
C16_Witness ==
    /\ ch_running
    /\ Len(ch_messages) = 11
    /\ Len(ch_history) = 10
    /\ ch_history[1].role = "agent"

(* ======================================================================= *)
(*              properties of the writer / critique loop's state           *)
(* ======================================================================= *)
\* the run ended at critique_agent on an 'approve' decision of the reviewer
EndedOnApprove ==
    /\ RunEnded
    /\ last.node = "critique_agent"
    /\ last.outcome = "ok"
    /\ last.decision = "approve"

\* C15 (as claimed): at the end of every run that ended at critique_agent,
\* validation_passed is True exactly when critique_agent ended the run
\* with next_action = 'approve', and False in every other case.
C15_ValidationIffApprove ==
    (RunEnded /\ last.node = "critique_agent") =>
        IF EndedOnApprove THEN st.validation_passed = PyTrue
        ELSE st.validation_passed = PyFalse

\* Only the fallback half holds: a run that critique_agent ended without an
\* 'approve' decision has validation_passed = False.
ValidationFalseOnFallback ==
    (RunEnded /\ last.node = "critique_agent" /\ ~EndedOnApprove) =>
        st.validation_passed = PyFalse

\* writer_agent executions of this run that completed without raising
WriterCompletions ==
    Cardinality({ i \in 1..Len(trace) : trace[i] = "writer_agent" /\ outcomes[i] = "ok" })

\* C17: in every reachable state of a run, 0 <= iteration_count <=
\* max_iterations, and iteration_count equals the number of writer_agent
\* executions of this run that completed without raising.
C17_IterationCount ==
    /\ 0 <= st.iteration_count
    /\ st.iteration_count <= st.max_iterations
    /\ st.iteration_count = WriterCompletions

\* the writer ran four times, once raising: iteration_count is at the cap
C17_Witness ==
    /\ phase = "running"
    /\ st.iteration_count = st.max_iterations
    /\ Executions("writer_agent") > st.max_iterations

\* C18: when critique_agent is entered with iteration_count >=
\* max_iterations it makes no reviewer call and ends the run with
\* final_markdown equal to the current tutorial_draft, validation_passed =
\* False and exactly one 'Max iteration reached' entry appended to errors;
\* critique_feedback, issues_found and next_action keep their previous
\* values.
C18_CapEndsRun ==
    [][ ( /\ phase = "running"
          /\ "critique_agent" \in active
          /\ st.iteration_count >= st.max_iterations
          /\ trace' = Append(trace, "critique_agent") ) =>
        ( /\ outcomes'[Len(outcomes')] = "cap"
          /\ active' = {}
          /\ st'.final_markdown = st.tutorial_draft
          /\ st'.validation_passed = PyFalse
          /\ st'.errors = Append(st.errors, "Max iteration reached. Tutorial may have issues.")
          /\ st'.critique_feedback = st.critique_feedback
          /\ st'.issues_found = st.issues_found
          /\ st'.next_action = st.next_action ) ]_vars

\* a run ended by the cap after the reviewer had reported an issue and
\* asked for a revision
C18_Witness ==
    /\ RunEnded
    /\ outcomes[Len(outcomes)] = "cap"
    /\ st.next_action = "revise"
    /\ st.critique_feedback = "fix it"
    /\ st.issues_found = <<"issue">>
    /\ st.final_markdown = st.tutorial_draft

\* C19 (as claimed): the critique reviewer is invoked only on an existing
\* draft: whenever critique_agent calls its reviewer, tutorial_draft is
\* non-empty, i.e. writer_agent has completed successfully at least once
\* in this run.
C19_ReviewerOnDraft ==
    (phase = "running" /\ last.node = "critique_agent" /\ last.outcome \in {"ok", "raise"}) =>
        /\ Truthy(st.tutorial_draft)
        /\ WriterCompletions >= 1

=============================================================================
